---- MODULE Spec2Model ----
(***************************************************************************)
(* The tool-dispatch gateway of trainai-mcp-server: one tool invocation,   *)
(* from the inbound tools/call to the result handed back, in each of the   *)
(* drafts the repository holds.                                            *)
(*                                                                         *)
(*   manual      src/server.mjs 458-620   hand-written POST /mcp           *)
(*   getServer   src/server.mjs 13-177    registerTool, isError on !ok     *)
(*   buildServer src/unnamed/part_000     registerTool, throws on !ok      *)
(*   callJson    src/unnamed/part_001     registerTool over callJson, ping *)
(*   mcpTool     src/unnamed/part_003     mcp.tool over getJSON/postJSON   *)
(*                                                                         *)
(* The MCP SDK (McpServer, the transports) and zod are libraries: the      *)
(* model stops at what the repository's own code does, that is the values  *)
(* a handler returns or throws. Input schemas are the ones the source      *)
(* declares, applied before the handler runs.                              *)
(*                                                                         *)
(* Spec follows one invocation through a draft. ConnSpec follows several   *)
(* POST /mcp requests in flight together through the Streamable HTTP       *)
(* handlers (part_001 225-251 with its module-level server, and the        *)
(* stateless handlers of server.mjs 206-238, part_000 and part_002): of    *)
(* the SDK it keeps only which transport a server is connected to, and     *)
(* that a call into it returns or throws.                                  *)
(***************************************************************************)
EXTENDS Integers, Sequences, FiniteSets, TLC

VARIABLES draft, pc, req, args, upstreamCalls, upReq, upOut, outcome,
          rpc, res, sdk, conn, slot, fin

\* the Streamable HTTP wiring of POST /mcp: the transport of each request
\* and the transport each McpServer is connected to
connVars == <<sdk, conn, slot, fin>>

vars ==
    <<draft, pc, req, args, upstreamCalls, upReq, upOut, outcome, rpc, res,
      sdk, conn, slot, fin>>

(***************************************************************************)
(* JavaScript values, tagged by typeof.                                    *)
(***************************************************************************)
Undefined == [t |-> "undefined"]

Null == [t |-> "null"]

Str(s) == [t |-> "string", s |-> s]

Num(n) == [t |-> "number", n |-> n]

\* an object literal: its own properties in insertion order, <<key, value>>
Obj(pairs) == [t |-> "object", pairs |-> pairs]

Arr(items) == [t |-> "array", items |-> items]

\* !v for the values above
Falsy(v) ==
    \/ v.t \in {"undefined", "null"}
    \/ (v.t = "string" /\ v.s = "")
    \/ (v.t = "number" /\ v.n = 0)

\* v ?? d
Coalesce(v, d) == IF v.t \in {"undefined", "null"} THEN d ELSE v

\* a destructuring default, { depth = 1 }: applies to undefined only
DefaultTo(v, d) == IF v.t = "undefined" THEN d ELSE v

\* String(v) and `${v}`
ToStr(v) ==
    CASE v.t = "undefined" -> "undefined"
      [] v.t = "null" -> "null"
      [] v.t = "string" -> v.s
      [] v.t = "number" -> ToString(v.n)
      [] v.t = "object" -> "[object Object]"
      [] v.t = "array" -> ""

Contains(s, sub) ==
    \E i \in 1..(Len(s) - Len(sub) + 1) : SubSeq(s, i, i + Len(sub) - 1) = sub

StartsWith(s, pre) == Len(s) >= Len(pre) /\ SubSeq(s, 1, Len(pre)) = pre

(***************************************************************************)
(* JSON.stringify and JSON.parse over the JSON values of the model.        *)
(***************************************************************************)
RECURSIVE JSONText(_, _, _)
RECURSIVE JSONMembers(_, _, _, _)
RECURSIVE JSONItems(_, _, _, _)

\* the members of an object from the k-th on; gap is the indent unit ("" =
\* compact), ind the indent of the enclosing line
JSONMembers(pairs, k, gap, ind) ==
    IF k > Len(pairs) THEN ""
    ELSE (IF gap = "" THEN "" ELSE "\n" \o ind \o gap)
         \o "\"" \o pairs[k][1] \o "\":" \o (IF gap = "" THEN "" ELSE " ")
         \o JSONText(pairs[k][2], gap, ind \o gap)
         \o (IF k < Len(pairs) THEN "," ELSE "")
         \o JSONMembers(pairs, k + 1, gap, ind)

JSONItems(items, k, gap, ind) ==
    IF k > Len(items) THEN ""
    ELSE (IF gap = "" THEN "" ELSE "\n" \o ind \o gap)
         \o JSONText(items[k], gap, ind \o gap)
         \o (IF k < Len(items) THEN "," ELSE "")
         \o JSONItems(items, k + 1, gap, ind)

JSONText(v, gap, ind) ==
    CASE v.t = "null" -> "null"
      [] v.t = "undefined" -> "null"
      [] v.t = "string" -> "\"" \o v.s \o "\""
      [] v.t = "number" -> ToString(v.n)
      [] v.t = "object" ->
            IF Len(v.pairs) = 0 THEN "{}"
            ELSE "{" \o JSONMembers(v.pairs, 1, gap, ind)
                 \o (IF gap = "" THEN "" ELSE "\n" \o ind) \o "}"
      [] v.t = "array" ->
            IF Len(v.items) = 0 THEN "[]"
            ELSE "[" \o JSONItems(v.items, 1, gap, ind)
                 \o (IF gap = "" THEN "" ELSE "\n" \o ind) \o "]"

\* JSON.stringify(v): undefined for undefined, else the compact text
JSONStringify(v) == IF v = Undefined THEN Undefined ELSE Str(JSONText(v, "", ""))

\* JSON.stringify(v, null, 2)
JSONStringifyPretty(v) ==
    IF v = Undefined THEN Undefined ELSE Str(JSONText(v, "  ", ""))

RoutesBody == Obj(<< <<"routes", Arr(<<Str("/a"), Str("/b")>>)>> >>)

FlowA == Obj(<< <<"a", Num(1)>> >>)

EmptyObj == Obj(<< >>)

\* what a text fails to parse into, in callJson's catch
ParseErrorObj(text) ==
    Obj(<< <<"raw", Str(text)>>, <<"parseError", Str("SyntaxError")>> >>)

JsonUniverse == {Null, RoutesBody, FlowA, EmptyObj, ParseErrorObj("boom")}

\* JSON.parse(text): the value whose text it is, or a SyntaxError
JSONParse(text) ==
    IF \E v \in JsonUniverse :
            text \in {JSONText(v, "", ""), JSONText(v, "  ", "")}
    THEN [ok |-> TRUE,
          value |-> CHOOSE v \in JsonUniverse :
                        text \in {JSONText(v, "", ""), JSONText(v, "  ", "")}]
    ELSE [ok |-> FALSE, value |-> Undefined]

(***************************************************************************)
(* URL building.                                                           *)
(***************************************************************************)
Unreserved ==
    {"a","b","c","d","e","f","g","h","i","j","k","l","m","n","o","p","q","r",
     "s","t","u","v","w","x","y","z","0","1","2","3","4","5","6","7","8","9",
     "-","_","."}

PercentOf(c) ==
    CASE c = ":" -> "%3A"
      [] c = "/" -> "%2F"
      [] c = " " -> "%20"
      [] OTHER -> c

RECURSIVE EncodeFrom(_, _, _)
EncodeFrom(s, i, plus) ==
    IF i > Len(s) THEN ""
    ELSE LET c == SubSeq(s, i, i)
         IN  (IF c \in Unreserved THEN c
              ELSE IF c = " " /\ plus THEN "+"
              ELSE PercentOf(c))
             \o EncodeFrom(s, i + 1, plus)

\* encodeURIComponent(s)
encodeURIComponent(s) == EncodeFrom(s, 1, FALSE)

\* URLSearchParams serialisation of a value: a space becomes "+"
searchParamsEncode(s) == EncodeFrom(s, 1, TRUE)

\* new URL(s) succeeds; what zod's .url() asks of a string
IsAbsoluteURL(s) ==
    \E scheme \in {"http://", "https://"} :
        /\ StartsWith(s, scheme)
        /\ Len(s) > Len(scheme)
        /\ ~Contains(s, " ")

StatusText(status) ==
    CASE status = 200 -> "OK"
      [] status = 404 -> "Not Found"
      [] status = 500 -> "Internal Server Error"
      [] OTHER -> ""

\* Response.ok
Ok(status) == status >= 200 /\ status <= 299

(***************************************************************************)
(* Tool invocations.                                                       *)
(***************************************************************************)
Drafts == {"manual", "getServer", "buildServer", "callJson", "mcpTool"}

Fields == {"url", "depth", "query", "selector", "route", "flow", "id", "extra"}

\* the order in which an arguments object lists its properties
FieldOrder == <<"url", "depth", "query", "selector", "route", "flow", "id", "extra">>

NoArgs == [f \in Fields |-> Undefined]

DepthMin == 0

DepthMax == 3

DepthDefault == 1

\* depths tried run from -1 to MaxDepthTried
MaxDepthTried == 7

UrlValues == {Undefined, Str(""), Str("not a url"), Str("https://example.com")}

DepthValues ==
    {Undefined, Null, Str("2")} \cup {Num(n) : n \in (0 - 1)..MaxDepthTried}

TextValues == {Undefined, Str(""), Str("login")}

FlowValues == {Undefined, Null, EmptyObj, FlowA}

ExtraValues == {Undefined, Str("x")}

ToolNames ==
    {"crawl", "doc_search", "evaluate", "persist_flow", "list_flows", "get_flow", "ping"}

\* "" stands for a tools/call without a name
RequestNames == ToolNames \cup {"nonexistent", ""}

With(a, f, v) == [a EXCEPT ![f] = v]

ArgsFor(name) ==
    LET base == {With(NoArgs, "extra", e) : e \in ExtraValues}
    IN CASE name = "crawl" ->
              {With(With(b, "url", u), "depth", d) :
                  b \in base, u \in UrlValues, d \in DepthValues}
         [] name = "doc_search" ->
              {With(b, "query", q) : b \in base, q \in TextValues}
         [] name = "evaluate" ->
              {With(With(b, "selector", s), "route", r) :
                  b \in base, s \in TextValues, r \in TextValues}
         [] name = "persist_flow" ->
              {With(b, "flow", fl) : b \in base, fl \in FlowValues}
         [] name = "get_flow" ->
              {With(b, "id", i) : b \in base, i \in TextValues}
         [] OTHER -> base

RECURSIVE PairsFrom(_, _)
PairsFrom(a, k) ==
    IF k > Len(FieldOrder) THEN << >>
    ELSE (IF a[FieldOrder[k]] = Undefined THEN << >>
          ELSE << <<FieldOrder[k], a[FieldOrder[k]]>> >>)
         \o PairsFrom(a, k + 1)

\* the arguments object itself, as a handler that takes it whole sees it
ArgsObject(a) == Obj(PairsFrom(a, 1))

\* a z.object() keeps the declared keys and drops the others
Strip(a, keys) == [f \in Fields |-> IF f \in keys THEN a[f] ELSE Undefined]

(***************************************************************************)
(* The tool table of each draft.                                           *)
(***************************************************************************)
Registered(d) ==
    CASE d = "manual" -> {"crawl", "doc_search", "evaluate", "persist_flow"}
      [] d = "getServer" -> {"crawl", "doc_search", "evaluate", "persist_flow"}
      [] d = "buildServer" ->
            {"crawl", "doc_search", "evaluate", "persist_flow", "list_flows", "get_flow"}
      [] d = "callJson" ->
            {"ping", "crawl", "doc_search", "evaluate", "persist_flow"}
      [] d = "mcpTool" ->
            {"crawl", "doc_search", "evaluate", "persist_flow", "get_flow", "list_flows"}

\* the fields a draft's input schema declares for a tool
Declared(d, name) ==
    CASE name = "crawl" -> {"url", "depth"}
      [] name = "doc_search" -> {"query"}
      [] name = "evaluate" -> {"selector", "route"}
      [] name = "persist_flow" -> IF d = "mcpTool" THEN {} ELSE {"flow"}
      [] name = "get_flow" -> {"id"}
      [] OTHER -> {}

ZodString(v) == v.t = "string"

\* z.string().url()
ZodUrl(v) == v.t = "string" /\ IsAbsoluteURL(v.s)

\* z.number().int().min(0).max(3).optional(), and .default(1).optional()
ZodDepth(v) ==
    \/ v = Undefined
    \/ (v.t = "number" /\ v.n >= DepthMin /\ v.n <= DepthMax)

\* z.record(z.any())
ZodRecord(v) == v.t = "object"

\* { type: 'integer' } on a property that need not be there
SchemaInteger(v) == v = Undefined \/ v.t = "number"

\* the declared input schema accepts the arguments
SchemaAccepts(d, name, a) ==
    CASE d \in {"getServer", "buildServer", "callJson"} ->
            (CASE name = "crawl" -> ZodUrl(a.url) /\ ZodDepth(a.depth)
               [] name = "doc_search" -> ZodString(a.query)
               [] name = "evaluate" -> ZodString(a.selector) /\ ZodString(a.route)
               [] name = "persist_flow" ->
                     IF d = "getServer" THEN TRUE ELSE ZodRecord(a.flow)
               [] name = "get_flow" -> ZodString(a.id)
               [] OTHER -> TRUE)
      [] d = "mcpTool" ->
            (CASE name = "crawl" -> ZodString(a.url) /\ SchemaInteger(a.depth)
               [] name = "doc_search" -> ZodString(a.query)
               [] name = "evaluate" -> ZodString(a.selector) /\ ZodString(a.route)
               [] name = "get_flow" -> ZodString(a.id)
               [] OTHER -> TRUE)
      [] OTHER -> TRUE

\* the arguments the handler is called with
HandlerArgs(d, name, a) ==
    IF d \in {"getServer", "buildServer", "callJson"}
    THEN Strip(a, Declared(d, name))
    ELSE a

\* what the schema parse can hand to the handler. For
\* depth: z.number()...default(1).optional() an absent depth stays undefined
\* under zod 3 (the optional wrapper answers first) and becomes 1 under zod 4
ParsedArgs(d, name, a) ==
    IF d = "callJson" /\ name = "crawl" /\ a.depth = Undefined
    THEN {HandlerArgs(d, name, a),
          With(HandlerArgs(d, name, a), "depth", Num(DepthDefault))}
    ELSE {HandlerArgs(d, name, a)}

\* the checks of the hand-written tools/call: the message thrown, "" if none
ManualCheck(name, a) ==
    CASE name = "" -> "Missing tool name in tools/call"
      [] name = "crawl" -> IF Falsy(a.url) THEN "crawl requires url" ELSE ""
      [] name = "doc_search" ->
            IF Falsy(a.query) THEN "doc_search requires query" ELSE ""
      [] name = "evaluate" ->
            IF Falsy(a.selector) \/ Falsy(a.route)
            THEN "evaluate requires selector and route" ELSE ""
      [] name = "persist_flow" ->
            IF Falsy(a.flow) THEN "persist_flow requires flow" ELSE ""
      [] OTHER -> "Unknown tool: " \o name

(***************************************************************************)
(* The upstream request each draft builds.                                 *)
(***************************************************************************)
API_BASE == "https://trainai-tools.onrender.com"

Request(method, path, query, contentType, accept, body) ==
    [method |-> method, path |-> path, query |-> query,
     contentType |-> contentType, accept |-> accept, body |-> body]

\* callJson's loop over Object.entries(query): undefined and null are skipped
RECURSIVE callJsonQuery(_, _)
callJsonQuery(entries, k) ==
    IF k > Len(entries) THEN << >>
    ELSE (IF entries[k][2].t \in {"undefined", "null"} THEN << >>
          ELSE << <<entries[k][1], searchParamsEncode(ToStr(entries[k][2]))>> >>)
         \o callJsonQuery(entries, k + 1)

\* callJson(method, path, { query, body }) up to its fetch
callJsonRequest(method, path, query, body) ==
    Request(method, path, callJsonQuery(query, 1),
            body.t \notin {"undefined", "null"}, FALSE,
            IF body.t \notin {"undefined", "null"} THEN JSONStringify(body)
            ELSE Undefined)

\* getJSON(url) up to its fetch
getJSONRequest(path, query) == Request("GET", path, query, FALSE, TRUE, Undefined)

\* postJSON(url, body) up to its fetch: body || {}
postJSONRequest(path, query, body) ==
    Request("POST", path, query, TRUE, TRUE,
            JSONStringify(IF Falsy(body) THEN EmptyObj ELSE body))

ManualRequest(name, a) ==
    CASE name = "crawl" ->
            Request("POST", "/crawl",
                    << <<"url", encodeURIComponent(ToStr(a.url))>>,
                       <<"depth", ToStr(DefaultTo(a.depth, Num(DepthDefault)))>> >>,
                    FALSE, FALSE, Undefined)
      [] name = "doc_search" ->
            Request("GET", "/doc_search",
                    << <<"query", encodeURIComponent(ToStr(a.query))>> >>,
                    FALSE, FALSE, Undefined)
      [] name = "evaluate" ->
            Request("GET", "/evaluate",
                    << <<"selector", encodeURIComponent(ToStr(a.selector))>>,
                       <<"route", encodeURIComponent(ToStr(a.route))>> >>,
                    FALSE, FALSE, Undefined)
      [] name = "persist_flow" ->
            Request("POST", "/persist_flow", << >>, TRUE, FALSE, JSONStringify(a.flow))

\* the fetch of the registerTool handlers of getServer and buildServer
RegisterToolRequest(name, a) ==
    CASE name = "crawl" ->
            Request("POST", "/crawl",
                    << <<"url", encodeURIComponent(ToStr(a.url))>>,
                       <<"depth", ToStr(Coalesce(a.depth, Num(DepthDefault)))>> >>,
                    FALSE, FALSE, Undefined)
      [] name = "doc_search" ->
            Request("GET", "/doc_search",
                    << <<"query", encodeURIComponent(ToStr(a.query))>> >>,
                    FALSE, FALSE, Undefined)
      [] name = "evaluate" ->
            Request("GET", "/evaluate",
                    << <<"selector", encodeURIComponent(ToStr(a.selector))>>,
                       <<"route", encodeURIComponent(ToStr(a.route))>> >>,
                    FALSE, FALSE, Undefined)
      [] name = "persist_flow" ->
            Request("POST", "/persist_flow", << >>, TRUE, FALSE, JSONStringify(a.flow))
      [] name = "list_flows" ->
            Request("GET", "/flows", << >>, FALSE, FALSE, Undefined)
      [] name = "get_flow" ->
            Request("GET", "/flows/" \o encodeURIComponent(ToStr(a.id)),
                    << >>, FALSE, FALSE, Undefined)

CallJsonToolRequest(name, a) ==
    CASE name = "crawl" ->
            callJsonRequest("POST", "/crawl",
                            << <<"url", a.url>>, <<"depth", a.depth>> >>, Undefined)
      [] name = "doc_search" ->
            callJsonRequest("GET", "/doc_search", << <<"query", a.query>> >>, Undefined)
      [] name = "evaluate" ->
            callJsonRequest("GET", "/evaluate",
                            << <<"selector", a.selector>>, <<"route", a.route>> >>,
                            Undefined)
      [] name = "persist_flow" ->
            callJsonRequest("POST", "/persist_flow", << >>, a.flow)

McpToolRequest(name, a) ==
    CASE name = "crawl" ->
            postJSONRequest("/crawl",
                            << <<"url", searchParamsEncode(ToStr(a.url))>>,
                               <<"depth",
                                 searchParamsEncode(
                                    ToStr(DefaultTo(a.depth, Num(DepthDefault))))>> >>,
                            EmptyObj)
      [] name = "doc_search" ->
            getJSONRequest("/doc_search",
                           << <<"query", searchParamsEncode(ToStr(a.query))>> >>)
      [] name = "evaluate" ->
            getJSONRequest("/evaluate",
                           << <<"selector", searchParamsEncode(ToStr(a.selector))>>,
                              <<"route", searchParamsEncode(ToStr(a.route))>> >>)
      [] name = "persist_flow" -> postJSONRequest("/persist_flow", << >>, ArgsObject(a))
      [] name = "get_flow" -> getJSONRequest("/flows/" \o ToStr(a.id), << >>)
      [] name = "list_flows" -> getJSONRequest("/flows", << >>)

RECURSIVE QueryString(_, _)
QueryString(query, k) ==
    IF k > Len(query) THEN ""
    ELSE (IF k = 1 THEN "?" ELSE "&") \o query[k][1] \o "=" \o query[k][2]
         \o QueryString(query, k + 1)

\* url.toString()
URLString(r) == API_BASE \o r.path \o QueryString(r.query, 1)

(***************************************************************************)
(* What the upstream does with a request, and what each draft makes of it. *)
(***************************************************************************)
Statuses == {200, 404, 500}

BodyTexts == {JSONText(RoutesBody, "", ""), "boom", ""}

\* fetch resolves with a response, or rejects
UpstreamOutcomes ==
    {[kind |-> "neterr", message |-> "fetch failed"]}
        \cup {[kind |-> "response", status |-> st, body |-> b] :
                  st \in Statuses, b \in BodyTexts}

TextItem(text) == [type |-> "text", text |-> text]

JsonItem(json) == [type |-> "json", json |-> json]

\* a value a handler returns; isError FALSE stands for a result without the key
Returned(isError, content, structuredContent) ==
    [kind |-> "result", isError |-> isError, content |-> content,
     structuredContent |-> structuredContent]

\* an Error a handler throws to the SDK that called it
Thrown(message) == [kind |-> "thrown", message |-> message]

\* the JSON-RPC error object the hand-written handler sends
RpcError(code, message) == [kind |-> "rpcError", code |-> code, message |-> message]

\* the catch of the hand-written POST /mcp
ManualCatch(message) == RpcError(-32603, message)

\* the hand-written tools/call from the fetch on
ManualResume(name, r, resp) ==
    IF resp.kind = "neterr" THEN ManualCatch(resp.message)
    ELSE LET parsed == JSONParse(resp.body)
             data == IF parsed.ok THEN parsed.value ELSE Null
         IN  Returned(FALSE, << [type |-> "json", data |-> data] >>, Undefined)

\* the handlers of getServer from the fetch on
GetServerResume(name, r, resp) ==
    IF resp.kind = "neterr" THEN Thrown(resp.message)
    ELSE IF ~Ok(resp.status)
    THEN Returned(TRUE,
                  << TextItem(name \o " failed: " \o ToString(resp.status) \o " "
                              \o StatusText(resp.status) \o " - " \o resp.body) >>,
                  Undefined)
    ELSE LET parsed == JSONParse(resp.body)
         IN  IF parsed.ok
             THEN Returned(FALSE, << JsonItem(parsed.value) >>, Undefined)
             ELSE Thrown("SyntaxError")

\* the handlers of buildServer from the fetch on
BuildServerResume(name, r, resp) ==
    IF resp.kind = "neterr" THEN Thrown(resp.message)
    ELSE IF ~Ok(resp.status)
    THEN Thrown(name \o " failed: " \o ToString(resp.status) \o " " \o resp.body)
    ELSE LET parsed == JSONParse(resp.body)
         IN  IF parsed.ok
             THEN Returned(FALSE, << JsonItem(parsed.value) >>, Undefined)
             ELSE Thrown("SyntaxError")

\* a callJson that hands back the body text as it came
callJson_RawText(r, resp) ==
    IF resp.kind = "neterr" THEN [ok |-> FALSE, error |-> resp.message]
    ELSE IF ~Ok(resp.status) THEN [ok |-> FALSE, error |-> "Upstream failed"]
    ELSE [ok |-> TRUE, json |-> Str(resp.body)]

\* callJson from the fetch on: the json it returns ([ok |-> TRUE]) or the
\* Error it throws
callJson(r, resp) ==
    IF resp.kind = "neterr" THEN [ok |-> FALSE, error |-> resp.message]
    ELSE LET text == resp.body
             parsed == JSONParse(text)
             json == IF text = "" THEN Null
                     ELSE IF parsed.ok THEN parsed.value
                     ELSE ParseErrorObj(text)
         IN  IF ~Ok(resp.status)
             THEN [ok |-> FALSE,
                   error |-> "Upstream " \o r.method \o " " \o URLString(r)
                             \o " failed: " \o ToString(resp.status) \o " "
                             \o StatusText(resp.status) \o " " \o text]
             ELSE [ok |-> TRUE, json |-> json]

\* the handlers of part_001 from the callJson call on
CallJsonResume(name, r, resp) ==
    LET got == callJson(r, resp)
    IN  IF got.ok
        THEN Returned(FALSE, << TextItem(JSONStringifyPretty(got.json).s) >>, got.json)
        ELSE Thrown(got.error)

\* getJSON and postJSON from the fetch on, and the handler around them
McpToolResume(name, r, resp) ==
    IF resp.kind = "neterr" THEN Thrown(resp.message)
    ELSE IF ~Ok(resp.status)
    THEN Thrown(ToString(resp.status) \o " " \o StatusText(resp.status)
                \o (IF r.method = "POST" THEN " :: " \o resp.body ELSE ""))
    ELSE LET parsed == JSONParse(resp.body)
         IN  IF parsed.ok
             THEN Returned(FALSE, << JsonItem(parsed.value) >>, Undefined)
             ELSE Thrown("SyntaxError")

\* the ping tool of part_001
PingResult ==
    Returned(FALSE, << TextItem("pong from trainai-mcp-server") >>,
             Obj(<< <<"ok", [t |-> "boolean", b |-> TRUE]>>,
                    <<"message", Str("pong from trainai-mcp-server")>> >>))

\* a handler that would call fetch again when the first one fails
AfterFetch_Retry(resp) ==
    IF resp.kind = "neterr" \/ ~Ok(resp.status) THEN "received" ELSE "settled"

\* where a handler stands once its one awaited fetch has settled: on the
\* statement after it, whatever the outcome; no draft loops back to the fetch
AfterFetch(resp) == "settled"

\* the handler of the tool calls the upstream API
CallsUpstream(d, name) == name # "ping"

ToolRequest(d, name, a) ==
    CASE d = "manual" -> ManualRequest(name, a)
      [] d \in {"getServer", "buildServer"} -> RegisterToolRequest(name, a)
      [] d = "callJson" -> CallJsonToolRequest(name, a)
      [] d = "mcpTool" -> McpToolRequest(name, a)

Resume(d, name, r, resp) ==
    CASE d = "manual" -> ManualResume(name, r, resp)
      [] d = "getServer" -> GetServerResume(name, r, resp)
      [] d = "buildServer" -> BuildServerResume(name, r, resp)
      [] d = "callJson" -> CallJsonResume(name, r, resp)
      [] d = "mcpTool" -> McpToolResume(name, r, resp)

(***************************************************************************)
(* The tool catalog of the hand-written POST /mcp.                         *)
(***************************************************************************)
Tool(name, title, description, properties, required) ==
    [name |-> name, title |-> title, description |-> description,
     inputSchema |-> [type |-> "object", properties |-> properties,
                      required |-> required, additionalProperties |-> FALSE]]

\* a table that lost its last entry
ManualToolTable_WithoutLast ==
    << Tool("crawl", "Crawl application",
            "Crawl a target web application and return routes, selectors, and snippets.",
            {"url", "depth"}, {"url"}),
       Tool("doc_search", "Search documentation",
            "Search Train.ai indexed docs/DOM for information relevant to a task.",
            {"query"}, {"query"}),
       Tool("evaluate", "Evaluate selector/route",
            "Validate that a selector works for a given route in the learned flow.",
            {"selector", "route"}, {"selector", "route"}) >>

\* const tools = [...] of the tools/list branch
ManualToolTable ==
    << Tool("crawl", "Crawl application",
            "Crawl a target web application and return routes, selectors, and snippets.",
            {"url", "depth"}, {"url"}),
       Tool("doc_search", "Search documentation",
            "Search Train.ai indexed docs/DOM for information relevant to a task.",
            {"query"}, {"query"}),
       Tool("evaluate", "Evaluate selector/route",
            "Validate that a selector works for a given route in the learned flow.",
            {"selector", "route"}, {"selector", "route"}),
       Tool("persist_flow", "Persist discovered flow",
            "Store a structured Train.ai flow JSON so it can be replayed or inspected.",
            {"flow"}, {}) >>

\* the JSON-RPC result of tools/list
ToolsListResult(tools) == [kind |-> "toolsList", tools |-> tools]

(***************************************************************************)
(* The inbound requests of POST /mcp and the McpServer objects.            *)
(***************************************************************************)
MaxRequests == 2

Reqs == 1..MaxRequests

\* const server = new McpServer(...) at module level
ModuleServer == 0

Servers == {ModuleServer} \cup Reqs

\* the drafts that serve POST /mcp through a StreamableHTTPServerTransport
\* ("part_002" is the handler of src/unnamed/part_002, whose tools are not
\* among the drafts above)
HttpDrafts == {"callJson", "getServer", "buildServer", "part_002"}

\* the McpServer a request connects: the module-level one in part_001,
\* the one it made itself (getServer(), buildServer()) in the other drafts
ServerOf(d, r) == IF d = "callJson" THEN ModuleServer ELSE r

\* server.connect(transport) on a server that is already connected: older
\* SDKs attach the new transport, newer ones throw
SdkConnect == {"replaces", "refuses"}

\* a request: its place in the handler, whether its transport is open,
\* whether its fetch is pending, whether res has closed, what the caller got
Conn(at, open, pending, gone, got) ==
    [at |-> at, open |-> open, pending |-> pending, gone |-> gone, got |-> got]

NoConn == Conn("idle", FALSE, FALSE, FALSE, "nothing")

\* the end of a request: what became of transport.close() and server.close()
\* ("no": not called), the HTTP responses written to res, res.headersSent,
\* and whether handleRequest threw of itself
Fin(tClose, sClose, responses, headersSent, fault) ==
    [tClose |-> tClose, sClose |-> sClose, responses |-> responses,
     headersSent |-> headersSent, fault |-> fault]

NoFin == Fin("no", "no", 0, FALSE, "none")

\* a response is written to res
Responds(f) == [f EXCEPT !.responses = @ + 1, !.headersSent = TRUE]

\* catch: if (!res.headersSent) res.status(500).json(...)
CatchFallback(f) == IF f.headersSent THEN f ELSE Responds(f)

\* handleRequest returns, or throws before or after it wrote the response
Faults == {"none", "before", "after"}

\* the "close" listener, given which of the two calls throws. part_001 calls
\* transport.close().catch(...) and nothing else; server.mjs and part_000 put
\* both calls in one try; part_002 gives each call its own try
CloseListener(d, tThrows, sThrows) ==
    CASE d = "callJson" -> [tClose |-> "done", sClose |-> "no"]
      [] d = "part_002" -> [tClose |-> IF tThrows THEN "threw" ELSE "done",
                            sClose |-> IF sThrows THEN "threw" ELSE "done"]
      [] OTHER -> IF tThrows THEN [tClose |-> "threw", sClose |-> "no"]
                  ELSE [tClose |-> "done",
                        sClose |-> IF sThrows THEN "threw" ELSE "done"]

(***************************************************************************)
(* The JSON-RPC envelope of the hand-written POST /mcp and its response.   *)
(***************************************************************************)
\* const { id, method, params = {} } = req.body || {}
Rpc(id, method) == [id |-> id, method |-> method]

NoRpc == Rpc(Undefined, Undefined)

Ids == {Undefined, Num(7)}

UnknownMethods == {Undefined, Str("resources/list")}

\* { jsonrpc: '2.0', id, result | error }
Message(id, body) == [id |-> id, body |-> body]

\* res: the events written to it and the calls of res.end()
NoRes == [events |-> << >>, ended |-> 0]

\* an event written and the response left open
sendMcpEvent_NoEnd(r, payload) ==
    [events |-> Append(r.events, payload), ended |-> r.ended]

\* sendMcpEvent(res, payload): one "event: message" with its data line, res.end()
sendMcpEvent(r, payload) ==
    [events |-> Append(r.events, payload), ended |-> r.ended + 1]

\* the fallback of the hand-written POST /mcp
UnknownMethod(method) == RpcError(-32601, "Unknown method: " \o ToStr(method))

(***************************************************************************)
(* One invocation at a time.                                               *)
(***************************************************************************)
Init ==
    /\ draft \in Drafts
    /\ pc = "idle"
    /\ req = ""
    /\ args = NoArgs
    /\ upstreamCalls = 0
    /\ upReq = Undefined
    /\ upOut = Undefined
    /\ outcome = Undefined
    /\ rpc = NoRpc
    /\ res = NoRes
    /\ sdk = "replaces"
    /\ conn = [r \in Reqs |-> NoConn]
    /\ slot = [s \in Servers |-> {}]
    /\ fin = [r \in Reqs |-> NoFin]

\* a tools/call arrives
Receive ==
    /\ pc = "idle"
    /\ \E name \in RequestNames : \E a \in ArgsFor(name) :
          /\ req' = name
          /\ args' = a
    /\ \E id \in Ids : rpc' = Rpc(id, Str("tools/call"))
    /\ pc' = "received"
    /\ UNCHANGED <<draft, upstreamCalls, upReq, upOut, outcome, res>>
    /\ UNCHANGED connVars

\* the hand-written tools/call branch, up to its fetch or its throw
ManualToolsCall ==
    /\ draft = "manual"
    /\ pc = "received"
    /\ IF ManualCheck(req, args) # ""
       THEN /\ outcome' = ManualCatch(ManualCheck(req, args))
            /\ res' = sendMcpEvent(res, Message(rpc.id, outcome'))
            /\ pc' = "done"
            /\ UNCHANGED <<upstreamCalls, upReq>>
       ELSE /\ upReq' = ToolRequest(draft, req, args)
            /\ upstreamCalls' = upstreamCalls + 1
            /\ pc' = "awaiting"
            /\ UNCHANGED <<outcome, res>>
    /\ UNCHANGED <<draft, req, args, upOut, rpc>>
    /\ UNCHANGED connVars

\* the tools/list branch of the hand-written POST /mcp: answered at once
ManualToolsList ==
    /\ draft = "manual"
    /\ pc = "idle"
    /\ \E id \in Ids : rpc' = Rpc(id, Str("tools/list"))
    /\ outcome' = ToolsListResult(ManualToolTable)
    /\ res' = sendMcpEvent(res, Message(rpc'.id, outcome'))
    /\ pc' = "done"
    /\ UNCHANGED <<draft, req, args, upstreamCalls, upReq, upOut>>
    /\ UNCHANGED connVars

\* the fallback of the hand-written POST /mcp: a method that is neither
\* tools/list nor tools/call, or none at all (req.body || {})
ManualFallback ==
    /\ draft = "manual"
    /\ pc = "idle"
    /\ \E id \in Ids : \E method \in UnknownMethods : rpc' = Rpc(id, method)
    /\ outcome' = UnknownMethod(rpc'.method)
    /\ res' = sendMcpEvent(res, Message(rpc'.id, outcome'))
    /\ pc' = "done"
    /\ UNCHANGED <<draft, req, args, upstreamCalls, upReq, upOut>>
    /\ UNCHANGED connVars

\* a registered tool is looked up, its input schema applied, its handler
\* called up to its fetch
RegisteredToolCall ==
    /\ draft # "manual"
    /\ pc = "received"
    /\ IF req \notin Registered(draft)
       THEN /\ outcome' = [kind |-> "notRegistered"]
            /\ pc' = "done"
            /\ UNCHANGED <<upstreamCalls, upReq>>
       ELSE IF ~SchemaAccepts(draft, req, args)
       THEN /\ outcome' = [kind |-> "schemaRejected"]
            /\ pc' = "done"
            /\ UNCHANGED <<upstreamCalls, upReq>>
       ELSE IF ~CallsUpstream(draft, req)
       THEN /\ outcome' = PingResult
            /\ pc' = "done"
            /\ UNCHANGED <<upstreamCalls, upReq>>
       ELSE /\ \E parsed \in ParsedArgs(draft, req, args) :
                    upReq' = ToolRequest(draft, req, parsed)
            /\ upstreamCalls' = upstreamCalls + 1
            /\ pc' = "awaiting"
            /\ UNCHANGED outcome
    /\ UNCHANGED <<draft, req, args, upOut, rpc, res>>
    /\ UNCHANGED connVars

\* the fetch settles
UpstreamResponds ==
    /\ pc = "awaiting"
    /\ upOut' \in UpstreamOutcomes
    /\ pc' = AfterFetch(upOut')
    /\ UNCHANGED <<draft, req, args, upstreamCalls, upReq, outcome, rpc, res>>
    /\ UNCHANGED connVars

\* the handler goes on after its await
HandlerResumes ==
    /\ pc = "settled"
    /\ outcome' = Resume(draft, req, upReq, upOut)
    /\ res' = IF draft = "manual" THEN sendMcpEvent(res, Message(rpc.id, outcome'))
              ELSE res
    /\ pc' = "done"
    /\ UNCHANGED <<draft, req, args, upstreamCalls, upReq, upOut, rpc>>
    /\ UNCHANGED connVars

\* the invocation is over; the next one starts from nothing
NextInvocation ==
    /\ pc = "done"
    /\ pc' = "idle"
    /\ req' = ""
    /\ args' = NoArgs
    /\ upstreamCalls' = 0
    /\ upReq' = Undefined
    /\ upOut' = Undefined
    /\ outcome' = Undefined
    /\ rpc' = NoRpc
    /\ res' = NoRes
    /\ UNCHANGED draft
    /\ UNCHANGED connVars

Next ==
    \/ Receive
    \/ ManualToolsCall
    \/ ManualToolsList
    \/ ManualFallback
    \/ RegisteredToolCall
    \/ UpstreamResponds
    \/ HandlerResumes
    \/ NextInvocation

Spec == Init /\ [][Next]_vars

(***************************************************************************)
(* POST /mcp over Streamable HTTP, several requests in flight.             *)
(***************************************************************************)
callVars == <<draft, pc, req, args, upstreamCalls, upReq, upOut, outcome, rpc, res>>

ConnInit ==
    /\ draft \in HttpDrafts
    /\ pc = "idle"
    /\ req = ""
    /\ args = NoArgs
    /\ upstreamCalls = 0
    /\ upReq = Undefined
    /\ upOut = Undefined
    /\ outcome = Undefined
    /\ rpc = NoRpc
    /\ res = NoRes
    /\ sdk \in SdkConnect
    /\ conn = [r \in Reqs |-> NoConn]
    /\ slot = [s \in Servers |-> {}]
    /\ fin = [r \in Reqs |-> NoFin]

\* app.post("/mcp"): the server (in the stateless drafts) and the transport
\* are made, the close listener is registered
PostMcp(r) ==
    /\ conn[r].at = "idle"
    /\ conn' = [conn EXCEPT ![r] = Conn("created", TRUE, FALSE, FALSE, "nothing")]
    /\ slot' = IF ServerOf(draft, r) = r THEN [slot EXCEPT ![r] = {}] ELSE slot
    /\ fin' = [fin EXCEPT ![r] = NoFin]
    /\ UNCHANGED <<callVars, sdk>>

\* await server.connect(transport); a throw goes to the catch, which
\* answers 500 since no header was sent
Connect(r) ==
    /\ conn[r].at = "created"
    /\ IF slot[ServerOf(draft, r)] = {} \/ sdk = "replaces"
       THEN /\ slot' = [slot EXCEPT ![ServerOf(draft, r)] = {r}]
            /\ conn' = [conn EXCEPT ![r].at = "connected"]
            /\ UNCHANGED fin
       ELSE /\ conn' = [conn EXCEPT ![r].at = "ended", ![r].got = "error500"]
            /\ fin' = [fin EXCEPT ![r] = CatchFallback(fin[r])]
            /\ UNCHANGED slot
    /\ UNCHANGED <<callVars, sdk>>

\* await transport.handleRequest(req, res, req.body): the tool handler runs
\* up to its fetch
HandleRequest(r) ==
    /\ conn[r].at = "connected"
    /\ conn' = [conn EXCEPT ![r].at = "awaiting", ![r].pending = TRUE]
    /\ UNCHANGED <<callVars, sdk, slot, fin>>

\* the fetch settles and the handler returns; the server answers through
\* the transport it is connected to, and handleRequest returns or throws
FetchSettles(r) ==
    /\ conn[r].at = "awaiting"
    /\ conn[r].pending
    /\ IF conn[r].gone
       THEN /\ conn' = [conn EXCEPT
                          ![r] = Conn("ended", conn[r].open, FALSE, TRUE, conn[r].got)]
            /\ UNCHANGED fin
       ELSE IF slot[ServerOf(draft, r)] = {r} /\ conn[r].open
       THEN \E fault \in Faults :
               IF fault = "before"
               THEN /\ conn' = [conn EXCEPT
                                  ![r] = Conn("ended", TRUE, FALSE, FALSE, "error500")]
                    /\ fin' = [fin EXCEPT
                                 ![r] = CatchFallback([fin[r] EXCEPT !.fault = fault])]
               ELSE /\ conn' = [conn EXCEPT
                                  ![r] = Conn("ended", TRUE, FALSE, FALSE, "result")]
                    /\ fin' = [fin EXCEPT
                                 ![r] = IF fault = "after"
                                        THEN CatchFallback(
                                                Responds([fin[r] EXCEPT !.fault = fault]))
                                        ELSE Responds(fin[r])]
       ELSE /\ conn' = [conn EXCEPT
                          ![r] = Conn("unanswered", conn[r].open, FALSE, FALSE,
                                      conn[r].got)]
            /\ UNCHANGED fin
    /\ UNCHANGED <<callVars, sdk, slot>>

\* res emits "close" (the caller went away, or the response was sent): the
\* listener runs; a transport that closed leaves its server unconnected,
\* and so does a server that closed
ResClose(r) ==
    /\ conn[r].at \in {"awaiting", "ended", "unanswered"}
    /\ ~conn[r].gone
    /\ \E tThrows \in BOOLEAN : \E sThrows \in BOOLEAN :
          LET c == CloseListener(draft, tThrows, sThrows)
          IN  /\ conn' = [conn EXCEPT ![r].gone = TRUE,
                                      ![r].open = (c.tClose # "done")]
              /\ slot' = IF slot[ServerOf(draft, r)] = {r}
                            /\ "done" \in {c.tClose, c.sClose}
                         THEN [slot EXCEPT ![ServerOf(draft, r)] = {}]
                         ELSE slot
              /\ fin' = [fin EXCEPT ![r].tClose = c.tClose, ![r].sClose = c.sClose]
    /\ UNCHANGED <<callVars, sdk>>

\* the request is over; its number is used again
NextRequest(r) ==
    /\ conn[r].at \in {"ended", "unanswered"}
    /\ conn[r].gone
    /\ conn' = [conn EXCEPT ![r] = NoConn]
    /\ fin' = [fin EXCEPT ![r] = NoFin]
    /\ UNCHANGED <<callVars, sdk, slot>>

ConnNext ==
    \E r \in Reqs :
        \/ PostMcp(r)
        \/ Connect(r)
        \/ HandleRequest(r)
        \/ FetchSettles(r)
        \/ ResClose(r)
        \/ NextRequest(r)

ConnSpec == ConnInit /\ [][ConnNext]_vars

(***************************************************************************)
(* The data model of the specification, for stating the claims.            *)
(***************************************************************************)
Done == pc = "done"

\* the fetch of this invocation has settled
Settled == upOut # Undefined

\* a ToolResult flagged as an error
IsErrorResult == outcome.kind = "result" /\ outcome.isError

\* the invocation was turned down: an error-flagged result, a JSON-RPC error,
\* or the library's answer to a tool it does not know or arguments its schema
\* refuses
Rejected ==
    \/ IsErrorResult
    \/ outcome.kind \in {"rpcError", "schemaRejected", "notRegistered"}

\* the diagnostic the caller can read: the text of an error result, or the
\* message of the Error thrown to the library
Diagnostic ==
    CASE outcome.kind = "thrown" -> outcome.message
      [] outcome.kind = "result" /\ outcome.isError /\ Len(outcome.content) = 1
            /\ outcome.content[1].type = "text" -> outcome.content[1].text
      [] OTHER -> ""

\* {isError: true, content: [one text item]}
ErrorEnvelope ==
    /\ IsErrorResult
    /\ Len(outcome.content) = 1
    /\ outcome.content[1].type = "text"

NonEmptyString(v) == v.t = "string" /\ v.s # ""

\* the required arguments of section 4.1 are all there
RequiredPresent(name, a) ==
    CASE name = "crawl" -> a.url # Undefined
      [] name = "doc_search" -> a.query # Undefined
      [] name = "evaluate" -> a.selector # Undefined /\ a.route # Undefined
      [] name = "persist_flow" -> a.flow # Undefined
      [] name = "get_flow" -> a.id # Undefined
      [] OTHER -> TRUE

\* the arguments meet the constraints of section 4.1
ArgsValid(name, a) ==
    CASE name = "crawl" -> ZodUrl(a.url) /\ ZodDepth(a.depth)
      [] name = "doc_search" -> NonEmptyString(a.query)
      [] name = "evaluate" -> NonEmptyString(a.selector) /\ NonEmptyString(a.route)
      [] name = "persist_flow" -> a.flow.t = "object"
      [] name = "get_flow" -> NonEmptyString(a.id)
      [] OTHER -> TRUE

\* a tool of the draft's table, called with valid arguments
ValidInvocation == req \in Registered(draft) /\ ArgsValid(req, args)

NetworkFailure == Settled /\ upOut.kind = "neterr"

Non2xx == Settled /\ upOut.kind = "response" /\ ~Ok(upOut.status)

Unparsable2xx ==
    Settled /\ upOut.kind = "response" /\ Ok(upOut.status) /\ ~JSONParse(upOut.body).ok

UpstreamSuccess ==
    Settled /\ upOut.kind = "response" /\ Ok(upOut.status) /\ JSONParse(upOut.body).ok

UpstreamFailure == NetworkFailure \/ Non2xx \/ Unparsable2xx

(***************************************************************************)
(* C1. A returned ToolResult has isError = true exactly when validation    *)
(* failed (unknown tool included) or the upstream outcome is a Failure     *)
(* (non-2xx, network failure, unparsable 2xx body). Stated of the results  *)
(* the repository's own code returns.                                      *)
(***************************************************************************)
C1_IsErrorIffFailure ==
    (Done /\ outcome.kind = "result")
        => (outcome.isError <=> (~ValidInvocation \/ UpstreamFailure))

(***************************************************************************)
(* C2. An invocation of a registered tool that omits a required argument   *)
(* is rejected, and no upstream request is issued for it.                  *)
(***************************************************************************)
C2_MissingRequiredRejected ==
    (pc # "idle" /\ req \in Registered(draft) /\ ~RequiredPresent(req, args))
        => (upstreamCalls = 0 /\ (Done => Rejected))

(***************************************************************************)
(* C3. A crawl with a valid url and a depth that is not an integer in      *)
(* [0,3] is rejected and issues no upstream request: the depth is never    *)
(* forwarded to /crawl.                                                    *)
(***************************************************************************)
C3_DepthOutOfRangeRejected ==
    (pc # "idle" /\ req = "crawl" /\ ZodUrl(args.url) /\ ~ZodDepth(args.depth))
        => (upstreamCalls = 0 /\ (Done => Rejected))

(***************************************************************************)
(* C4 as claimed. Exactly one upstream request per valid invocation, never *)
(* more than one for any invocation.                                       *)
(***************************************************************************)
C4_ExactlyOnePerValidInvocation ==
    /\ upstreamCalls <= 1
    /\ (Done /\ ValidInvocation) => upstreamCalls = 1

(***************************************************************************)
(* C4 as amended. No invocation issues more than one upstream request,     *)
(* whatever the upstream outcome; a valid invocation of a tool mapped to   *)
(* an upstream route issues exactly one; ping, which part_001 answers      *)
(* itself, issues none.                                                    *)
(***************************************************************************)
C4_AtMostOneAndOneIfMapped ==
    /\ upstreamCalls <= 1
    /\ (pc \in {"awaiting", "settled"}) => upstreamCalls = 1
    /\ (Done /\ ValidInvocation /\ req # "ping") => upstreamCalls = 1
    /\ (Done /\ req = "ping") => upstreamCalls = 0

C4_Witness ==
    /\ Done
    /\ ValidInvocation
    /\ req = "persist_flow"
    /\ NetworkFailure
    /\ upstreamCalls = 1

(***************************************************************************)
(* C5. A tool name that is not in the table yields a ToolResult with       *)
(* isError = true and one text item naming the tool, not a protocol-level  *)
(* error, and no upstream request. Where the lookup is the library's, its  *)
(* answer is taken to conform.                                             *)
(***************************************************************************)
C5_UnknownToolIsErrorResult ==
    (Done /\ req # "" /\ req \notin Registered(draft))
        => /\ upstreamCalls = 0
           /\ \/ outcome.kind = "notRegistered"
              \/ (ErrorEnvelope /\ Contains(outcome.content[1].text, req))

(***************************************************************************)
(* C6. No fault escapes a tool call: when the fetch of a valid invocation   *)
(* throws, the handler returns {isError: true, content: [one text item]}   *)
(* instead of throwing.                                                    *)
(***************************************************************************)
C6_NoFaultEscapes == (Done /\ ValidInvocation /\ NetworkFailure) => ErrorEnvelope

(***************************************************************************)
(* C7. On a status outside [200,299] the caller reads                      *)
(* '<toolName> failed: <statusCode> <diagnostic>', with the raw response   *)
(* body in the diagnostic. An Error thrown with that message is taken to   *)
(* conform, and so is a status text ahead of the body.                     *)
(***************************************************************************)
C7_Non2xxMessage ==
    (Done /\ ValidInvocation /\ Non2xx)
        => /\ outcome.kind \in {"result", "thrown"}
           /\ StartsWith(Diagnostic,
                         req \o " failed: " \o ToString(upOut.status) \o " ")
           /\ Contains(Diagnostic, upOut.body)

(***************************************************************************)
(* C8. When the fetch itself fails the caller reads                        *)
(* '<toolName> failed: network error <diagnostic>', the diagnostic being   *)
(* the underlying error message. An Error thrown with that message is      *)
(* taken to conform.                                                       *)
(***************************************************************************)
C8_NetworkErrorMessage ==
    (Done /\ ValidInvocation /\ NetworkFailure)
        => /\ outcome.kind \in {"result", "thrown"}
           /\ Diagnostic = req \o " failed: network error " \o upOut.message

(***************************************************************************)
(* C9. A 2xx response whose body does not parse as JSON never comes back   *)
(* as a success payload.                                                   *)
(***************************************************************************)
C9_Unparsable2xxIsFailure ==
    (Done /\ ValidInvocation /\ Unparsable2xx) => ~(outcome.kind = "result" /\ ~outcome.isError)

(***************************************************************************)
(* C10 as claimed. On Success the result is not an error and its content   *)
(* is exactly one structured-data item holding the parsed body.            *)
(***************************************************************************)
\* the payload of a structured-data content item: its json, or data, key
Payload(item) ==
    IF "json" \in DOMAIN item THEN item.json
    ELSE IF "data" \in DOMAIN item THEN item.data
    ELSE Undefined

C10_SuccessOneStructuredItem ==
    (Done /\ ValidInvocation /\ UpstreamSuccess)
        => /\ outcome.kind = "result"
           /\ ~outcome.isError
           /\ Len(outcome.content) = 1
           /\ outcome.content[1].type = "json"
           /\ Payload(outcome.content[1]) = JSONParse(upOut.body).value

(***************************************************************************)
(* C10 as amended. On Success the result is not flagged as an error and    *)
(* carries the parsed body unchanged: as its one content item of type      *)
(* json, or, in part_001, as structuredContent next to one text item that  *)
(* holds the same value serialised.                                        *)
(***************************************************************************)
C10_SuccessCarriesParsedBody ==
    (Done /\ ValidInvocation /\ UpstreamSuccess)
        => /\ outcome.kind = "result"
           /\ ~outcome.isError
           /\ Len(outcome.content) = 1
           /\ \/ /\ outcome.content[1].type = "json"
                 /\ Payload(outcome.content[1]) = JSONParse(upOut.body).value
                 /\ outcome.structuredContent = Undefined
              \/ /\ draft = "callJson"
                 /\ outcome.content[1].type = "text"
                 /\ JSONParse(outcome.content[1].text).ok
                 /\ JSONParse(outcome.content[1].text).value
                        = JSONParse(upOut.body).value
                 /\ outcome.structuredContent = JSONParse(upOut.body).value

C10_Witness ==
    /\ Done
    /\ draft = "callJson"
    /\ req = "doc_search"
    /\ args.query = Str("login")
    /\ UpstreamSuccess
    /\ outcome.kind = "result"
    /\ outcome.structuredContent = RoutesBody

(***************************************************************************)
(* C13. A single bad tool call never comes back as a JSON-RPC error        *)
(* object or a transport-level 5xx: the caller gets a result object. What  *)
(* the library makes of a thrown Error is taken to conform.                *)
(***************************************************************************)
C13_NoProtocolError == Done => outcome.kind # "rpcError"

(***************************************************************************)
(* C14. tools/list is answered from the static table: every tool the       *)
(* dispatcher knows is listed with its name, description and input shape,  *)
(* and no upstream request is issued.                                      *)
(***************************************************************************)
ListedNames(tools) == {tools[i].name : i \in 1..Len(tools)}

C14_ToolsListFromTable ==
    (Done /\ outcome.kind = "toolsList")
        => /\ upstreamCalls = 0
           /\ upReq = Undefined
           /\ upOut = Undefined
           /\ ListedNames(outcome.tools) = Registered(draft)
           /\ Len(outcome.tools) = Cardinality(Registered(draft))
           /\ \A i \in 1..Len(outcome.tools) :
                 /\ outcome.tools[i].description # ""
                 /\ outcome.tools[i].inputSchema.required
                        \subseteq outcome.tools[i].inputSchema.properties
                 /\ outcome.tools[i].inputSchema.properties
                        = Declared(draft, outcome.tools[i].name)

C14_Witness ==
    /\ Done
    /\ outcome.kind = "toolsList"
    /\ Len(outcome.tools) = 4
    /\ "persist_flow" \in ListedNames(outcome.tools)

(***************************************************************************)
(* What the upstream service reads from a request: percent-decoding, "+"   *)
(* as a space.                                                             *)
(***************************************************************************)
RECURSIVE DecodeFrom(_, _)
DecodeFrom(s, i) ==
    IF i > Len(s) THEN ""
    ELSE IF SubSeq(s, i, i) = "%" /\ i + 2 <= Len(s)
    THEN (CASE SubSeq(s, i, i + 2) = "%3A" -> ":"
            [] SubSeq(s, i, i + 2) = "%2F" -> "/"
            [] SubSeq(s, i, i + 2) = "%20" -> " "
            [] OTHER -> SubSeq(s, i, i + 2))
         \o DecodeFrom(s, i + 3)
    ELSE (IF SubSeq(s, i, i) = "+" THEN " " ELSE SubSeq(s, i, i))
         \o DecodeFrom(s, i + 1)

SentQuery(r) == {<<r.query[k][1], DecodeFrom(r.query[k][2], 1)>> : k \in 1..Len(r.query)}

SentRequest == pc \in {"awaiting", "settled", "done"} /\ upReq # Undefined

\* the mapping table of section 4.1
TableMethod(name) == IF name \in {"crawl", "persist_flow"} THEN "POST" ELSE "GET"

TablePath(name, a) ==
    CASE name = "list_flows" -> "/flows"
      [] name = "get_flow" -> "/flows/" \o ToStr(a.id)
      [] OTHER -> "/" \o name

TableQuery(name, a) ==
    CASE name = "crawl" -> {<<"url", ToStr(a.url)>>,
                            <<"depth", ToStr(Coalesce(a.depth, Num(DepthDefault)))>>}
      [] name = "doc_search" -> {<<"query", ToStr(a.query)>>}
      [] name = "evaluate" -> {<<"selector", ToStr(a.selector)>>,
                               <<"route", ToStr(a.route)>>}
      [] OTHER -> {}

TableBody(name, a) == IF name = "persist_flow" THEN JSONStringify(a.flow) ELSE Undefined

(***************************************************************************)
(* C15. The upstream request of a valid invocation has the method, the     *)
(* path and the field placement of the mapping table: the query fields of  *)
(* the table and no others, and a body only for persist_flow, equal to the *)
(* value of its flow argument.                                             *)
(***************************************************************************)
C15_RequestFollowsTable ==
    (SentRequest /\ ValidInvocation)
        => /\ upReq.method = TableMethod(req)
           /\ DecodeFrom(upReq.path, 1) = TablePath(req, args)
           /\ SentQuery(upReq) = TableQuery(req, args)
           /\ Len(upReq.query) = Cardinality(TableQuery(req, args))
           /\ upReq.body = TableBody(req, args)

(***************************************************************************)
(* C16. A valid crawl carries exactly one depth parameter: the depth given *)
(* (0 included), or 1 when depth was left out.                             *)
(***************************************************************************)
C16_CrawlDepthSent ==
    (SentRequest /\ ValidInvocation /\ req = "crawl")
        => /\ <<"depth", ToStr(Coalesce(args.depth, Num(DepthDefault)))>>
                  \in SentQuery(upReq)
           /\ Cardinality({k \in 1..Len(upReq.query) : upReq.query[k][1] = "depth"}) = 1

(***************************************************************************)
(* C17. A valid invocation's request has a JSON body and a Content-Type    *)
(* header exactly when its template has a body (persist_flow): the GETs    *)
(* and the POST of crawl carry neither.                                    *)
(***************************************************************************)
C17_BodyAndContentTypeIffTemplateBody ==
    (SentRequest /\ ValidInvocation)
        => /\ upReq.contentType <=> (req = "persist_flow")
           /\ (upReq.body # Undefined) <=> (req = "persist_flow")

(***************************************************************************)
(* C18. An argument the tool's input shape does not declare is ignored:    *)
(* it is no reason to reject, the upstream request is the one the same     *)
(* invocation without it produces, and it is not forwarded.                *)
(***************************************************************************)
WithoutExtra == With(args, "extra", Undefined)

C18_UndeclaredIgnored ==
    (pc # "idle" /\ ValidInvocation /\ args.extra # Undefined)
        => /\ SentRequest =>
                 /\ upReq \in {ToolRequest(draft, req, parsed) :
                                  parsed \in ParsedArgs(draft, req, WithoutExtra)}
                 /\ ~Contains(URLString(upReq), "extra")
                 /\ upReq.body # Undefined => ~Contains(upReq.body.s, "extra")
           /\ (Done /\ outcome.kind = "schemaRejected")
                 => ~SchemaAccepts(draft, req, WithoutExtra)
           /\ (Done /\ outcome.kind = "rpcError" /\ upReq = Undefined)
                 => ManualCheck(req, WithoutExtra) # ""

(***************************************************************************)
(* C19. A query, selector, route or id that is the empty string, and a     *)
(* crawl url that is not an absolute URL, fail validation: no upstream     *)
(* request is issued and the invocation ends rejected.                     *)
(***************************************************************************)
BadText(v) == v # Undefined /\ ~NonEmptyString(v)

EmptyOrMalformed(name, a) ==
    CASE name = "crawl" -> a.url # Undefined /\ ~ZodUrl(a.url)
      [] name = "doc_search" -> BadText(a.query)
      [] name = "evaluate" -> BadText(a.selector) \/ BadText(a.route)
      [] name = "get_flow" -> BadText(a.id)
      [] OTHER -> FALSE

C19_EmptyOrMalformedRejected ==
    (pc # "idle" /\ req \in Registered(draft) /\ EmptyOrMalformed(req, args))
        => /\ upstreamCalls = 0
           /\ Done => Rejected

(***************************************************************************)
(* C20. When validation fails, the message names the first failing field   *)
(* (and not a field that passed): evaluate with a selector and no route    *)
(* is told about route. A rejection worded by the library is taken to      *)
(* conform.                                                                *)
(***************************************************************************)
FieldFails(a, f) ==
    CASE f = "url" -> ~ZodUrl(a.url)
      [] f = "depth" -> ~ZodDepth(a.depth)
      [] f = "flow" -> a.flow.t # "object"
      [] OTHER -> ~NonEmptyString(a[f])

FailingFields(name, a) == {f \in Declared("manual", name) : FieldFails(a, f)}

FirstFailing(name, a) ==
    LET k == CHOOSE i \in 1..Len(FieldOrder) :
                /\ FieldOrder[i] \in FailingFields(name, a)
                /\ \A j \in 1..(i - 1) : FieldOrder[j] \notin FailingFields(name, a)
    IN  FieldOrder[k]

ValidationMessage == IF outcome.kind = "rpcError" THEN outcome.message ELSE Diagnostic

C20_MessageNamesFirstFailingField ==
    (/\ Done
     /\ req \in Registered(draft)
     /\ upstreamCalls = 0
     /\ FailingFields(req, args) # {}
     /\ ValidationMessage # "")
        => /\ Contains(ValidationMessage, FirstFailing(req, args))
           /\ \A f \in Declared("manual", req) \ FailingFields(req, args) :
                 ~Contains(ValidationMessage, f)

(***************************************************************************)
(* C11. Requests in flight together do not interfere: a step of one        *)
(* request leaves the server of another connected request attached to      *)
(* that request's transport and leaves that transport open, and every      *)
(* caller is answered with its own result, never with a 500 or not at all  *)
(* (unless its own handleRequest threw).                                   *)
(***************************************************************************)
Connected(r) ==
    /\ conn[r].at \in {"connected", "awaiting"}
    /\ ~conn[r].gone
    /\ slot[ServerOf(draft, r)] = {r}

C11_NoInterference ==
    [][/\ \A q \in Reqs :
             (Connected(q) /\ conn'[q] = conn[q])
                 => /\ slot'[ServerOf(draft, q)] = {q}
                    /\ conn'[q].open
       /\ \A q \in Reqs :
             /\ conn'[q].got \in {"nothing", "result"} \/ fin'[q].fault # "none"
             /\ conn'[q].at # "unanswered"]_vars

(***************************************************************************)
(* C12. Once the caller of a request is gone (res closed, the listener     *)
(* has run), no upstream request of that invocation is pending any more.   *)
(***************************************************************************)
C12_NoPendingFetchAfterCallerGone ==
    \A r \in Reqs : conn[r].gone => ~conn[r].pending

(***************************************************************************)
(* C21. In the hand-written POST /mcp every request (tools/list, any       *)
(* tools/call, an unknown or missing method, any throw) ends with exactly  *)
(* one message event written and res.end() called once, the message        *)
(* carrying the id of the request; before that nothing is written, and a   *)
(* request that has not ended can always go on.                            *)
(***************************************************************************)
C21_ExactlyOneEvent ==
    draft = "manual"
        => /\ Len(res.events) <= 1
           /\ res.ended = Len(res.events)
           /\ Done <=> (res.ended = 1)
           /\ Done => /\ res.events[1].id = rpc.id
                      /\ res.events[1].body = outcome
           /\ ~Done => ENABLED Next

C21_Witness ==
    /\ draft = "manual"
    /\ Done
    /\ rpc.id = Num(7)
    /\ outcome.kind = "rpcError"
    /\ rpc.method = Str("tools/call")
    /\ upOut # Undefined
    /\ res.ended = 1
    /\ res.events[1].id = Num(7)

(***************************************************************************)
(* C22. The catalog of tools/list and the dispatcher of tools/call agree   *)
(* in the hand-written POST /mcp: a listed name is never answered          *)
(* "Unknown tool", a name that is not listed always is, and a call is      *)
(* turned down for a missing argument exactly when an argument of the      *)
(* tool's advertised "required" list is missing.                           *)
(***************************************************************************)
Advertised(name) ==
    CHOOSE t \in {ManualToolTable[i] : i \in 1..Len(ManualToolTable)} : t.name = name

\* a present argument the dispatcher's !x test would take for a missing one
PresentButFalsy(name, a) ==
    \E f \in Declared("manual", name) : a[f] # Undefined /\ Falsy(a[f])

TurnedDownBeforeFetch ==
    Done /\ outcome.kind = "rpcError" /\ upstreamCalls = 0

C22_CatalogMatchesDispatcher ==
    (draft = "manual" /\ Done /\ rpc.method = Str("tools/call") /\ req # "")
        => /\ (outcome.kind = "rpcError" /\ StartsWith(outcome.message, "Unknown tool"))
                 <=> req \notin ListedNames(ManualToolTable)
           /\ (req \in ListedNames(ManualToolTable) /\ ~PresentButFalsy(req, args))
                 => (TurnedDownBeforeFetch
                        <=> \E f \in Advertised(req).inputSchema.required :
                               args[f] = Undefined)

(***************************************************************************)
(* C23. In the stateless handlers a request has its own server and         *)
(* transport; until its response closes neither is closed and the server   *)
(* stays connected to that transport; once the response has closed both    *)
(* closes have been attempted, whichever of them throws; and at most one   *)
(* HTTP response is written per request, the 500 only when no header was   *)
(* sent.                                                                   *)
(***************************************************************************)
StatelessDrafts == HttpDrafts \ {"callJson"}

C23_OwnServerClosedOnce ==
    draft \in StatelessDrafts
        => \A r \in Reqs :
              /\ ServerOf(draft, r) = r
              /\ (conn[r].at \in {"connected", "awaiting"} /\ ~conn[r].gone)
                    => /\ slot[r] = {r}
                       /\ conn[r].open
                       /\ fin[r].tClose = "no" /\ fin[r].sClose = "no"
              /\ conn[r].gone => fin[r].tClose # "no" /\ fin[r].sClose # "no"
              /\ fin[r].responses <= 1
              /\ fin[r].headersSent <=> (fin[r].responses = 1)

\* JSON.parse undoes JSON.stringify, compact or indented, and refuses other text
JSONRoundTrip ==
    /\ JSONText(RoutesBody, "", "") = "{\"routes\":[\"/a\",\"/b\"]}"
    /\ JSONText(FlowA, "  ", "") = "{\n  \"a\": 1\n}"
    /\ JSONText(RoutesBody, "  ", "")
         = "{\n  \"routes\": [\n    \"/a\",\n    \"/b\"\n  ]\n}"
    /\ JSONParse("boom").ok = FALSE
    /\ JSONParse("").ok = FALSE
    /\ \A v \in JsonUniverse : JSONParse(JSONText(v, "", "")).value = v
    /\ \A v \in JsonUniverse : JSONParse(JSONText(v, "  ", "")).value = v
====
